---- MODULE Spec2Model ----
(***************************************************************************)
(* Model of the real-time synchronisation and delivery subsystem of        *)
(* cloudflare-monitor:                                                     *)
(*   - CloudflarePollingService (apps/api/src/services/cloudflare/polling) *)
(*   - CacheService             (same file, lines 344-531)                 *)
(*   - SSEManager               (apps/api/src/sse/manager.ts)              *)
(* The runtime is a single-threaded event loop: every action below is one  *)
(* run-to-completion turn of a handler (from its entry, or from the        *)
(* resumption of an await, to its next await or its return).               *)
(***************************************************************************)
EXTENDS Integers, Sequences, FiniteSets, Bags, TLC

\* ------------------------------------------------------------------ bounds
\* Most projects the upstream account lists.
MaxProjects == 2
\* Most poll() activations the model lets be suspended at once.
MaxInFlight == 2
\* CacheService constructor arguments of the instance under check.
maxSize == 2
ttl == 1
\* Last instant of the cache's clock, and most get() calls counted between
\* two clear() calls.
MaxClock == 2
MaxGets == 2
\* Largest value of each counter when getHealthStatus is checked on its own.
MaxCount == 9
\* Distinct deployment ids handed to the repository.
MaxDeployments == 3
\* Longest batch handed to upsertMany.
MaxBatch == 2
\* Largest loop index calculateBackoff is applied to on its own.
MaxAttempt == 5
\* Math.random() * 1000 lies in [0, JitterRange).
JitterRange == 1000
\* SSEManager.MAX_CLIENTS, scaled down from the source's 1000.
MAX_CLIENTS == 2
\* Most heartbeat intervals that elapse.
MaxIntervals == 3
\* SSEManager.HEARTBEAT_INTERVAL (ms).
HEARTBEAT_INTERVAL == 30000
\* config.maxRetries of the client under check.
maxRetries == 2
\* config.retryDelay default (ms) and the cap of calculateBackoff (ms).
retryDelay == 1000
BackoffCap == 30000

VARIABLES
    \* ---- CloudflarePollingService (polling.ts:44-298)
    isPolling,       \* private isPolling
    pollInterval,    \* private pollInterval: TRUE when it holds a timer handle
    timers,          \* number of live setInterval timers created by start()
    inflight,        \* bag of poll() activations suspended at an await
    lastPollResult,  \* private lastPollResult (NoResult for null)
    lastReturn,      \* how the most recently finished poll() call ended
    sseBroadcasts,   \* sseManager.broadcast calls issued by the coordinator
    \* ---- CacheService (polling.ts:344-531)
    cache,           \* private cache: the Map's entries in insertion order
    hits,            \* private hits
    misses,          \* private misses
    clock,           \* Date.now() as the cache sees it
    ret,             \* the last CacheService call and what it returned
    \* ---- SSEManager (manager.ts:54-305)
    clients,           \* private clients: id -> [topics, lastHeartbeat]
    heartbeatInterval, \* private heartbeatInterval: TRUE when it holds a timer
    now,               \* Date.now() as the manager sees it (ms)
    nextId,            \* the next fresh client id (crypto.randomUUID())
    streams,           \* id -> the stream handed to the client: [closed, first],
                       \*   first being the first message written to it
    connecting,        \* registered ids whose 'connected' write is awaited
    broadcasts,        \* bag of broadcast() activations awaiting allSettled
    lastOp,            \* the manager's most recent step and what it did
    \* ---- CloudflareClient.request (client.ts:60-138), one call at a time
    cpc,             \* where the call is: "idle", "fetch", "sleep", "done"
    attempt,         \* the loop variable attempt
    history,         \* what each fetch of this call settled with, in order
    delay,           \* the ms handed to the sleep in progress (0 when none)
    lastError,       \* the local lastError (NoError for null)
    ending,          \* how the call ended: "none", "returned", "threw"
    \* ---- DeploymentsRepository (deployments.ts:10-88)
    deploymentsTable, \* the deployments table: id -> row
    latestUpsert      \* id -> the row values of the latest upsert of that id

pollVars == <<isPolling, pollInterval, timers, inflight, lastPollResult,
              lastReturn, sseBroadcasts>>

cacheVars == <<cache, hits, misses, clock, ret>>

sseVars == <<clients, heartbeatInterval, now, nextId, streams,
            connecting, broadcasts, lastOp>>

clientVars == <<cpc, attempt, history, delay, lastError, ending>>

repoVars == <<deploymentsTable, latestUpsert>>

vars == <<pollVars, cacheVars, sseVars, clientVars, repoVars>>

\* ------------------------------------------------ upstream data and helpers
Projects == 1 .. MaxProjects

\* The upstream account: listProjects() answers with the first n projects,
\* and project p has p - 1 deployments (so the first project has none).
DeploymentsOf(p) == p - 1

\* Number of deployments the projects of S hold together.
RECURSIVE DeploymentsTotal(_)
DeploymentsTotal(S) ==
    IF S = {} THEN 0
    ELSE LET p == CHOOSE q \in S : TRUE
         IN  DeploymentsOf(p) + DeploymentsTotal(S \ {p})

NoResult == [none |-> TRUE]
NoReturn == [outcome |-> "none"]
\* Marks, in lastReturn.fetched, a cycle whose projects fetch was rejected.
FetchFailed == 0 - 1

\* errors.push(`Projects fetch failed: ...`)
ProjectsFetchError == [kind |-> "Projects fetch failed", project |-> 0]
\* errors.push(`Deployments fetch failed for ${project.name}: ...`)
DeploymentsFetchError(p) == [kind |-> "Deployments fetch failed", project |-> p]
\* errors.push(`Critical failure: ...`)
CriticalError == [kind |-> "Critical failure", project |-> 0]

\* A result that reports success whatever was recorded.
PollResultAlwaysOk(errors, projectsCount, deploymentsCount) ==
    [success          |-> TRUE,
     projectsCount    |-> projectsCount,
     deploymentsCount |-> deploymentsCount,
     errors           |-> errors]

\* The PollResult built on the normal path.
PollResult(errors, projectsCount, deploymentsCount) ==
    [success          |-> (errors = <<>>),
     projectsCount    |-> projectsCount,
     deploymentsCount |-> deploymentsCount,
     errors           |-> errors]

\* A catch that reports the critical failure alone.
CriticalResultFresh(errors, projectsCount, deploymentsCount) ==
    [success          |-> FALSE,
     projectsCount    |-> projectsCount,
     deploymentsCount |-> deploymentsCount,
     errors           |-> <<CriticalError>>]

\* The PollResult built by the top-level catch.
CriticalResult(errors, projectsCount, deploymentsCount) ==
    [success          |-> FALSE,
     projectsCount    |-> projectsCount,
     deploymentsCount |-> deploymentsCount,
     errors           |-> Append(errors, CriticalError)]

\* A poll() activation right after its synchronous prefix: the projects
\* fetch has been issued and the activation awaits it.
NewCycle ==
    [pc       |-> "fetchProjects",
     fetched  |-> 0,
     dep      |-> <<>>,
     errors   |-> <<>>,
     upserts  |-> <<>>]

CanBegin == BagCardinality(inflight) < MaxInFlight

\* poll() without its top-level catch: the exception leaves the call.
EscapeOutcomeRethrow == "threw"

\* How an exception that escapes steps 1-3 of poll() leaves the call: the
\* top-level catch turns it into a returned result.
EscapeOutcome == "returned"

\* A coordinator that keeps the first result it ever stored.
StoreResultKeepFirst(previous, result) ==
    IF previous = NoResult THEN result ELSE previous

\* this.lastPollResult = result
StoreResult(previous, result) == result

\* poll() finishes: the activation leaves the bag, its result is stored.
Finish(c, outcome, result, fetched, dep, upserts) ==
    /\ inflight' = inflight (-) SetToBag({c})
    /\ lastPollResult' = IF outcome = "returned"
                         THEN StoreResult(lastPollResult, result)
                         ELSE lastPollResult
    /\ lastReturn' = [outcome |-> outcome,
                      result  |-> IF outcome = "returned" THEN result ELSE NoResult,
                      fetched |-> fetched,
                      dep     |-> dep,
                      upserts |-> upserts]
    /\ UNCHANGED <<isPolling, pollInterval, timers, sseBroadcasts, cacheVars, sseVars, clientVars, repoVars>>

\* The catch block of poll().
Critical(c, errors, projectsCount, deploymentsCount, fetched, dep, upserts) ==
    Finish(c, EscapeOutcome,
           CriticalResult(errors, projectsCount, deploymentsCount),
           fetched, dep, upserts)

\* The tail of the try block: build the result, store it, return it.
Return(c, errors, projectsCount, deploymentsCount, fetched, dep, upserts) ==
    Finish(c, "returned",
           PollResult(errors, projectsCount, deploymentsCount),
           fetched, dep, upserts)

\* ------------------------------------------------------------ coordinator
PollInit ==
    /\ isPolling = FALSE
    /\ pollInterval = FALSE
    /\ timers = 0
    /\ inflight = EmptyBag
    /\ lastPollResult = NoResult
    /\ lastReturn = NoReturn
    /\ sseBroadcasts = 0

\* A start() without its early return.
AlreadyRunningIgnored == FALSE

\* if (this.isPolling) in start()
AlreadyRunning == isPolling

\* A start() that schedules the recurring poll twice.
AfterSetIntervalTwice(n) == n + 2

\* The live timers once setInterval(...) has run in start().
AfterSetInterval(n) == n + 1

\* start()
Start ==
    IF AlreadyRunning
    THEN UNCHANGED vars
    ELSE /\ CanBegin
         /\ isPolling' = TRUE
         /\ inflight' = inflight (+) SetToBag({NewCycle})
         /\ pollInterval' = TRUE
         /\ timers' = AfterSetInterval(timers)
         /\ UNCHANGED <<lastPollResult, lastReturn, sseBroadcasts, cacheVars, sseVars, clientVars, repoVars>>

\* A stop() that forgets clearInterval.
AfterClearIntervalLeak(n) == n

\* The live timers once clearInterval(this.pollInterval) has run.
AfterClearInterval(n) == n - 1

\* stop()
Stop ==
    IF ~isPolling
    THEN UNCHANGED vars
    ELSE /\ isPolling' = FALSE
         /\ pollInterval' = FALSE
         /\ timers' = IF pollInterval THEN AfterClearInterval(timers) ELSE timers
         /\ UNCHANGED <<inflight, lastPollResult, lastReturn, sseBroadcasts, cacheVars, sseVars, clientVars, repoVars>>

\* The setInterval callback of start(): it calls poll().
TimerTick ==
    /\ timers > 0
    /\ CanBegin
    /\ inflight' = inflight (+) SetToBag({NewCycle})
    /\ UNCHANGED <<isPolling, pollInterval, timers, lastPollResult, lastReturn,
                   sseBroadcasts, cacheVars, sseVars, clientVars, repoVars>>

\* A manual trigger that also marks the coordinator as running.
TriggerImmediatePollStarts ==
    /\ CanBegin
    /\ inflight' = inflight (+) SetToBag({NewCycle})
    /\ isPolling' = TRUE
    /\ UNCHANGED <<pollInterval, timers, lastPollResult, lastReturn,
                   sseBroadcasts, cacheVars, sseVars, clientVars, repoVars>>

\* triggerImmediatePoll()
TriggerImmediatePoll ==
    /\ CanBegin
    /\ inflight' = inflight (+) SetToBag({NewCycle})
    /\ UNCHANGED <<isPolling, pollInterval, timers, lastPollResult, lastReturn,
                   sseBroadcasts, cacheVars, sseVars, clientVars, repoVars>>

\* A .catch that yields [] without recording anything.
OnProjectsFailureSilent(errors) == errors

\* What the .catch on fetchProjects() adds to errors.
OnProjectsFailure(errors) == Append(errors, ProjectsFetchError)

\* fetchProjects() rejects: the .catch records the error and yields [], so
\* the if (projects.length > 0) block is skipped and the result is built.
ProjectsFetchFails ==
    \E c \in BagToSet(inflight) :
        /\ c.pc = "fetchProjects"
        /\ Return(c, OnProjectsFailure(c.errors), 0, 0,
                  FetchFailed, <<>>, c.upserts)

\* The projects the deployments fetch is issued for, given the fetched list.
FetchTargets(n) == 1 .. n

\* fetchProjects() resolves with the first n projects.  With n > 0 the
\* projects are upserted (the call may raise) and one deployments fetch
\* per project is issued; the activation then awaits Promise.all.
ProjectsFetched ==
    \E c \in BagToSet(inflight), n \in 0 .. MaxProjects, upsertOk \in BOOLEAN :
        /\ c.pc = "fetchProjects"
        /\ IF n = 0
           THEN /\ upsertOk
                /\ Return(c, c.errors, 0, 0, 0, <<>>, c.upserts)
           ELSE LET call == [repo |-> "projects", count |-> n, ok |-> upsertOk,
                             projects |-> 1 .. n]
                    ups  == Append(c.upserts, call)
                    c1   == [c EXCEPT !.fetched = n]
                IN  IF ~upsertOk
                    THEN Critical(c, c.errors, 0, 0, n, <<>>, ups)
                    ELSE /\ inflight' = (inflight (-) SetToBag({c})) (+)
                              SetToBag({[c1 EXCEPT
                                  !.pc = "fetchDeployments",
                                  !.dep = [p \in 1 .. n |->
                                      IF p \in FetchTargets(n) THEN "pending"
                                      ELSE "skipped"],
                                  !.upserts = ups]})
                         /\ UNCHANGED <<isPolling, pollInterval, timers,
                                        lastPollResult, lastReturn, sseBroadcasts, cacheVars, sseVars, clientVars, repoVars>>

\* A mapping that stamps the deployments with another project's id.
FetchedProjectIdShifted(p) == p + 1

\* projectId: project.id in the deployments fetchDeployments(project) yields.
FetchedProjectId(p) == p

\* The project ids carried by the deployments of deploymentsArrays.flat().
ProjectIdsOf(dep) ==
    {FetchedProjectId(p) : p \in {q \in DOMAIN dep : dep[q] = "ok" /\ DeploymentsOf(q) > 0}}

\* deploymentsArrays.flat().length given the settled fetches.
FlatCount(dep) ==
    LET ok == {p \in DOMAIN dep : dep[p] = "ok"}
    IN  DeploymentsTotal(ok)

\* The continuation of Promise.all: flatten, bulk upsert when there is
\* anything to persist (the call may raise), build the result.
AfterAll(c, dep, errors, upsertOk) ==
    LET total == FlatCount(dep)
    IN  IF total > 0
        THEN LET call == [repo |-> "deployments", count |-> total, ok |-> upsertOk,
                          projects |-> ProjectIdsOf(dep)]
                 ups  == Append(c.upserts, call)
             IN  IF upsertOk
                 THEN Return(c, errors, c.fetched, total, c.fetched, dep, ups)
                 ELSE Critical(c, errors, c.fetched, 0, c.fetched, dep, ups)
        ELSE /\ upsertOk
             /\ Return(c, errors, c.fetched, 0, c.fetched, dep, c.upserts)

\* A per-project catch that swallows the failure without recording it.
OnDeploymentsFailureSilent(errors, p) == errors

\* What a rejected deployments fetch for project p adds to errors.
OnDeploymentsFailure(errors, p) == Append(errors, DeploymentsFetchError(p))

\* One deployments fetch settles (resolves or rejects).  When it is the
\* last one, Promise.all resolves and the cycle runs to its end.
DeploymentsSettle(c, p, ok, upsertOk) ==
    LET dep    == [c.dep EXCEPT ![p] = IF ok THEN "ok" ELSE "fail"]
        errors == IF ok THEN c.errors ELSE OnDeploymentsFailure(c.errors, p)
    IN  /\ c.pc = "fetchDeployments"
        /\ p \in DOMAIN c.dep
        /\ c.dep[p] = "pending"
        /\ IF \E q \in DOMAIN dep : dep[q] = "pending"
           THEN /\ upsertOk
                /\ inflight' = (inflight (-) SetToBag({c})) (+)
                      SetToBag({[c EXCEPT !.dep = dep, !.errors = errors]})
                /\ UNCHANGED <<isPolling, pollInterval, timers,
                               lastPollResult, lastReturn, sseBroadcasts, cacheVars, sseVars, clientVars, repoVars>>
           ELSE AfterAll(c, dep, errors, upsertOk)

DeploymentsFetched ==
    \E c \in BagToSet(inflight), p \in Projects, upsertOk \in BOOLEAN :
        DeploymentsSettle(c, p, TRUE, upsertOk)

DeploymentsFetchFails ==
    \E c \in BagToSet(inflight), p \in Projects, upsertOk \in BOOLEAN :
        DeploymentsSettle(c, p, FALSE, upsertOk)

\* getLastPollResult()
GetLastPollResult == lastPollResult

\* getStatus()
GetStatus == [isPolling |-> isPolling, lastPoll |-> lastPollResult]

\* pollingStatus as GET /health computes it.  lastPoll?.success is undefined,
\* hence falsy, while lastPoll is null.
PollingStatus ==
    LET lastPoll == GetLastPollResult
    IN  IF GetStatus.isPolling
        THEN IF lastPoll # NoResult /\ lastPoll.success
             THEN "operational"
             ELSE "degraded"
        ELSE "down"

\* ------------------------------------------------------- coordinator claims
InFlightCount == BagCardinality(inflight)

\* Number of entries of kind k in an errors list.
CountKind(errors, k) ==
    Cardinality({i \in DOMAIN errors : errors[i].kind = k})

\* An upsert call of the finished cycle raised.
UpsertRaised(r) == \E i \in DOMAIN r.upserts : ~r.upserts[i].ok

\* The upsert calls the finished cycle made on one repository.
UpsertsOn(r, repo) == {i \in DOMAIN r.upserts : r.upserts[i].repo = repo}

IsPollResult(x) ==
    /\ DOMAIN x = {"success", "projectsCount", "deploymentsCount", "errors"}
    /\ x.success \in BOOLEAN
    /\ x.projectsCount \in Nat
    /\ x.deploymentsCount \in Nat
    /\ x.errors \in Seq([kind : STRING, project : Nat])

\* C1: at most one poll cycle is in flight at any time, under every
\* interleaving of start(), stop(), timer ticks and triggerImmediatePoll().
C1_AtMostOneCycleInFlight == InFlightCount <= 1

\* C3: poll() never throws: whatever fails (the projects fetch, deployments
\* fetches, either upsert) the call resolves to a PollResult, and when an
\* exception escaped the per-resource handlers (an upsert raised) the result
\* has success = FALSE and exactly one 'Critical failure' entry.
C3_PollNeverThrows ==
    lastReturn.outcome # "none" =>
        /\ lastReturn.outcome = "returned"
        /\ IsPollResult(lastReturn.result)
        /\ UpsertRaised(lastReturn) =>
              /\ lastReturn.result.success = FALSE
              /\ CountKind(lastReturn.result.errors, CriticalError.kind) = 1

\* C3 witness: a cycle in which a deployments fetch failed and the bulk
\* upsert of the deployments then raised has returned.
C3_Witness ==
    /\ lastReturn.outcome = "returned"
    /\ \E i \in DOMAIN lastReturn.upserts :
          /\ lastReturn.upserts[i].repo = "deployments"
          /\ ~lastReturn.upserts[i].ok
    /\ \E p \in DOMAIN lastReturn.dep : lastReturn.dep[p] = "fail"
    /\ Len(lastReturn.result.errors) = 2

\* The projects of a finished cycle whose deployments fetch failed.
FailedSet(r) == {p \in DOMAIN r.dep : r.dep[p] = "fail"}

\* C4: poll isolation.  In a cycle that fetched n >= 1 projects and whose
\* persistence calls did not raise, with F the projects whose deployments
\* fetch failed: every project's fetch was issued and awaited; the result
\* has success = FALSE when F is not empty; errors holds exactly one entry
\* per project of F, naming it, and nothing else; projectsCount = n;
\* deploymentsCount is the number of deployments of the projects outside F,
\* and they went to the repository in one bulk upsert of that size (none
\* when there is nothing to persist).
C4_PollIsolation ==
    (/\ lastReturn.outcome = "returned"
     /\ lastReturn.fetched >= 1
     /\ ~UpsertRaised(lastReturn)) =>
        LET r     == lastReturn
            res   == r.result
            F     == FailedSet(r)
            total == DeploymentsTotal((1 .. r.fetched) \ F)
            deps  == UpsertsOn(r, "deployments")
        IN  /\ DOMAIN r.dep = 1 .. r.fetched
            /\ \A p \in DOMAIN r.dep : r.dep[p] \in {"ok", "fail"}
            /\ (F # {}) => (res.success = FALSE)
            /\ Len(res.errors) = Cardinality(F)
            /\ \A p \in F :
                  Cardinality({i \in DOMAIN res.errors :
                                  res.errors[i] = DeploymentsFetchError(p)}) = 1
            /\ res.projectsCount = r.fetched
            /\ res.deploymentsCount = total
            /\ Cardinality(deps) = (IF total > 0 THEN 1 ELSE 0)
            /\ \A i \in deps : r.upserts[i].count = total

\* C4 witness: two projects fetched, the fetch failed for the first one only,
\* and the second one's deployments were counted and persisted.
C4_Witness ==
    /\ lastReturn.outcome = "returned"
    /\ lastReturn.fetched = 2
    /\ ~UpsertRaised(lastReturn)
    /\ FailedSet(lastReturn) = {1}
    /\ lastReturn.result.deploymentsCount = DeploymentsOf(2)
    /\ lastReturn.result.deploymentsCount > 0

\* A finished cycle persisted fetched records.
PersistedRecords(r) == \E i \in DOMAIN r.upserts : r.upserts[i].ok

\* C10: every poll cycle that persists fetched records is followed by a
\* broadcast of a change notification through the fan-out.
C10_ChangeNotification ==
    (lastReturn.outcome = "returned" /\ PersistedRecords(lastReturn)) =>
        sseBroadcasts > 0

\* C14: start() is idempotent.  A start() made while running changes
\* nothing (no cycle launched, no timer created), a timer is only ever
\* created by a start() that found the service stopped with no timer, and
\* while the service is running exactly one recurring schedule is active.
C14_StartIdempotent ==
    /\ [][/\ (isPolling /\ Start) => UNCHANGED vars
          /\ timers' > timers =>
                (~isPolling /\ timers = 0 /\ timers' = 1 /\ isPolling')]_vars
    /\ [](isPolling => (timers = 1 /\ pollInterval))

\* C14 witness: the state start() and any further start() calls leave: the
\* service is running on one timer with the immediate first cycle in flight.
C14_Witness ==
    /\ isPolling
    /\ pollInterval
    /\ timers = 1
    /\ InFlightCount = 1
    /\ lastReturn.outcome = "none"

\* C15: stop() while running cancels the schedule and touches neither the
\* cycles in flight nor the stored result; stop() while stopped changes
\* nothing; a timer-triggered cycle begins only while running; and a cycle
\* that finishes while the service is stopped still returns and stores its
\* result.
C15_StopCancelsSchedule ==
    [][/\ (isPolling /\ Stop) =>
             /\ ~isPolling'
             /\ ~pollInterval'
             /\ timers' = 0
             /\ inflight' = inflight
             /\ lastPollResult' = lastPollResult
       /\ (~isPolling /\ Stop) => UNCHANGED vars
       /\ TimerTick => isPolling
       /\ (~isPolling /\ inflight' # inflight /\ InFlightCount' < InFlightCount) =>
             /\ lastReturn'.outcome = "returned"
             /\ lastPollResult' = lastReturn'.result
      ]_vars

\* C15 witness: the service is stopped, no timer is left, one cycle is still
\* in flight past its projects fetch and none has finished yet.
C15_Witness ==
    /\ ~isPolling
    /\ timers = 0
    /\ lastReturn.outcome = "none"
    /\ \E c \in BagToSet(inflight) : c.pc = "fetchDeployments"

\* C28: in every PollResult produced by poll(), the one returned and the
\* one stored, success is true exactly when the errors list is empty.
C28_SuccessIffNoErrors ==
    /\ lastReturn.outcome = "returned" =>
          (lastReturn.result.success <=> lastReturn.result.errors = <<>>)
    /\ lastPollResult # NoResult =>
          (lastPollResult.success <=> lastPollResult.errors = <<>>)

\* C28 witness: a cycle built its result on the normal path with a recorded
\* fetch failure, so the result is unsuccessful without a critical failure.
C28_Witness ==
    /\ lastReturn.outcome = "returned"
    /\ ~lastReturn.result.success
    /\ lastReturn.result.errors # <<>>
    /\ CountKind(lastReturn.result.errors, "Critical failure") = 0

\* C29: lastPollResult is null exactly until a first cycle has completed;
\* the step that completes a cycle, successful or not, stores that cycle's
\* PollResult and no other step changes the stored result; getStatus().lastPoll
\* is the result of the most recently completed cycle.
C29_LastResultTracking ==
    /\ [](lastReturn.outcome = "none" <=> lastPollResult = NoResult)
    /\ [](lastReturn.outcome # "none" =>
             /\ lastReturn.outcome = "returned"
             /\ GetStatus.lastPoll = lastReturn.result)
    /\ [][IF BagCardinality(inflight') < BagCardinality(inflight)
          THEN /\ IsPollResult(lastReturn'.result)
               /\ lastPollResult' = lastReturn'.result
          ELSE lastPollResult' = lastPollResult]_vars

\* C29 witness: a failed cycle completed while a cycle begun in the meantime
\* is still in flight, and getStatus() reports the failed cycle's result.
C29_Witness ==
    /\ lastReturn.outcome = "returned"
    /\ ~lastReturn.result.success
    /\ GetStatus.lastPoll = lastReturn.result
    /\ inflight # EmptyBag

\* C30: the health check reports the polling subsystem down when the
\* coordinator is not running, degraded when it is running and the last
\* result had errors, operational otherwise, a running coordinator without a
\* completed cycle included.
C30_PollingHealth ==
    PollingStatus =
        IF ~isPolling THEN "down"
        ELSE IF lastPollResult # NoResult /\ lastPollResult.errors # <<>>
             THEN "degraded"
             ELSE "operational"

\* C32: when the projects fetch fails the cycle records exactly one error
\* for it, makes no upsert call, issues no deployments fetch and returns
\* success = false with both counts 0; when the fetch yields an empty list
\* the cycle likewise persists and fetches nothing and returns success = true
\* with both counts 0 and no error.
C32_TopLevelFetchFailure ==
    (lastReturn.outcome # "none" /\ lastReturn.fetched \in {FetchFailed, 0}) =>
        /\ lastReturn.outcome = "returned"
        /\ lastReturn.upserts = <<>>
        /\ lastReturn.dep = <<>>
        /\ lastReturn.result.projectsCount = 0
        /\ lastReturn.result.deploymentsCount = 0
        /\ lastPollResult = lastReturn.result
        /\ IF lastReturn.fetched = FetchFailed
           THEN /\ lastReturn.result.errors = <<ProjectsFetchError>>
                /\ lastReturn.result.success = FALSE
           ELSE /\ lastReturn.result.errors = <<>>
                /\ lastReturn.result.success = TRUE

\* C32 witness: a cycle whose projects fetch was rejected has returned while
\* the coordinator is running.
C32_Witness ==
    /\ isPolling
    /\ lastReturn.outcome = "returned"
    /\ lastReturn.fetched = FetchFailed
    /\ Len(lastReturn.result.errors) = 1

\* The upsert calls a cycle made satisfy the ordering: a deployments upsert
\* comes after a completed projects upsert of the same cycle, and every
\* deployment it persists carries the id of a project that upsert stored.
OrderedUpserts(upserts) ==
    \A i \in DOMAIN upserts :
        upserts[i].repo = "deployments" =>
            \E j \in 1 .. (i - 1) :
                /\ upserts[j].repo = "projects"
                /\ upserts[j].ok
                /\ upserts[i].projects \subseteq upserts[j].projects

CompletedCount(r, repo) ==
    LET done == {i \in UpsertsOn(r, repo) : r.upserts[i].ok}
    IN  IF done = {} THEN 0 ELSE r.upserts[CHOOSE i \in done : TRUE].count

\* C37: in every PollResult, a critical-failure one included, projectsCount
\* is the number of projects whose bulk upsert completed in the cycle and
\* deploymentsCount the number of deployments whose bulk upsert completed
\* (0 when the upsert raised or was not reached); the errors recorded before
\* a critical failure stay ahead of the 'Critical failure' entry, which is
\* the last one.
C37_CountsMatchPersisted ==
    lastReturn.outcome = "returned" =>
        LET r      == lastReturn
            errors == r.result.errors
        IN  /\ r.result.projectsCount = CompletedCount(r, "projects")
            /\ r.result.deploymentsCount = CompletedCount(r, "deployments")
            /\ Cardinality(UpsertsOn(r, "projects")) <= 1
            /\ Cardinality(UpsertsOn(r, "deployments")) <= 1
            /\ IF UpsertRaised(r)
               THEN /\ Len(errors) = Cardinality(FailedSet(r)) + 1
                    /\ errors[Len(errors)] = CriticalError
                    /\ \A i \in 1 .. (Len(errors) - 1) :
                          /\ errors[i].kind = "Deployments fetch failed"
                          /\ errors[i].project \in FailedSet(r)
               ELSE CountKind(errors, "Critical failure") = 0

\* C37 witness: the deployments upsert raised after the projects were stored
\* and a deployments fetch had failed: the projects are counted, the
\* deployments are not, and the fetch error precedes the critical one.
C37_Witness ==
    /\ lastReturn.outcome = "returned"
    /\ lastReturn.result.projectsCount = 2
    /\ lastReturn.result.deploymentsCount = 0
    /\ Len(lastReturn.upserts) = 2
    /\ ~lastReturn.upserts[2].ok
    /\ Len(lastReturn.result.errors) = 2
    /\ lastReturn.result.errors[1].kind = "Deployments fetch failed"
    /\ lastReturn.result.errors[2] = CriticalError

\* C38: triggerImmediatePoll() begins one cycle and changes neither
\* isPolling nor the recurring timer; the cycle runs to its end and stores
\* its result whether the coordinator is running or stopped, and finishing
\* it leaves isPolling and the timer alone as well.
C38_ManualTrigger ==
    [][/\ TriggerImmediatePoll =>
            /\ inflight' = inflight (+) SetToBag({NewCycle})
            /\ isPolling' = isPolling
            /\ pollInterval' = pollInterval
            /\ timers' = timers
            /\ lastPollResult' = lastPollResult
       /\ BagCardinality(inflight') < BagCardinality(inflight) =>
            /\ BagCardinality(inflight') = BagCardinality(inflight) - 1
            /\ lastReturn'.outcome = "returned"
            /\ lastPollResult' = lastReturn'.result
            /\ isPolling' = isPolling
            /\ pollInterval' = pollInterval
            /\ timers' = timers
      ]_vars

\* C38 witness: with the coordinator stopped and no timer, a cycle has
\* stored its result and another one is in flight.
C38_Witness ==
    /\ ~isPolling
    /\ ~pollInterval
    /\ timers = 0
    /\ lastReturn.outcome = "returned"
    /\ lastPollResult = lastReturn.result
    /\ inflight # EmptyBag

\* C39: in every reachable state isPolling is true exactly when a recurring
\* timer exists, the handle field is set exactly then, and there is at most
\* one timer.
C39_CoordinatorConsistency ==
    /\ isPolling <=> timers > 0
    /\ isPolling <=> pollInterval
    /\ timers \in {0, 1}

\* C39 witness: the coordinator is running on its one timer after a cycle
\* has completed and none is in flight.
C39_Witness ==
    /\ isPolling
    /\ pollInterval
    /\ timers = 1
    /\ lastReturn.outcome = "returned"
    /\ inflight = EmptyBag

\* ------------------------------------------------------------ CacheService
\* Keys and values the callers use; the empty string is a legal Map key.
Keys == {"", "a", "b"}
Values == {1, 2}
\* What get() returns, as a set: empty for null, else the value.
Null == {}

CacheInit ==
    /\ cache = <<>>
    /\ hits = 0
    /\ misses = 0
    /\ clock = 0
    /\ ret = [op |-> "none"]

\* Map.get / Map.has: the position of key in the Map, 0 when absent.
IndexOf(m, key) ==
    IF \E i \in DOMAIN m : m[i].key = key
    THEN CHOOSE i \in DOMAIN m : m[i].key = key
    ELSE 0

\* Map.delete(key): the other entries keep their order.
MapDelete(m, key) ==
    SelectSeq(m, LAMBDA e : e.key # key)

\* JavaScript truthiness of a string: only the empty string is falsy.
Truthy(key) == key # ""

\* An expiry test that already drops an entry whose age equals the ttl.
ExpiredInclusive(e, t) == t - e.timestamp >= ttl

\* now - entry.timestamp > this.ttl
Expired(e, t) == t - e.timestamp > ttl

\* The eviction step of set(): at capacity, drop the first key of the Map
\* when keys().next().value is truthy.
EvictIfFull(m) ==
    IF Len(m) >= maxSize
    THEN IF Len(m) > 0 /\ Truthy(m[1].key) THEN Tail(m) ELSE m
    ELSE m

\* The entry get() puts back at the end of the Map on a hit: {...entry}.
Touched(e) == e

\* The entry set() stores.
NewEntry(key, value, t) == [key |-> key, value |-> value, timestamp |-> t]

\* A get() hit that leaves the entry where it is in the Map.
MoveToEndSkipped(m, key, e) == m

\* The LRU update of a get() hit: cache.delete(key), then cache.set(key, e).
MoveToEnd(m, key, e) == Append(MapDelete(m, key), e)

\* A miss that is not counted.
CountMissSkipped(n) == n

\* this.misses++
CountMiss(n) == n + 1

\* A has() that refreshes recency the way get() does.
HasOrderTouched(m, key) == Append(MapDelete(m, key), m[IndexOf(m, key)])

\* The Map after a has() that found a fresh entry: untouched.
HasOrder(m, key) == m

\* getStats(); hitRate is the percentage in hundredths, rounded as
\* toFixed(2) rounds.
GetStats ==
    LET totalRequests == hits + misses IN
    [size    |-> Len(cache),
     maxSize |-> maxSize,
     hits    |-> hits,
     misses  |-> misses,
     hitRate |-> IF totalRequests > 0
                 THEN (2 * hits * 10000 + totalRequests) \div (2 * totalRequests)
                 ELSE 0,
     ttl     |-> ttl]

\* get(key)
Get(key) ==
    LET i == IndexOf(cache, key) IN
    /\ hits + misses < MaxGets
    /\ IF i = 0
       THEN /\ misses' = CountMiss(misses)
            /\ ret' = [op |-> "get", out |-> Null, stale |-> FALSE]
            /\ UNCHANGED <<cache, hits>>
       ELSE IF Expired(cache[i], clock)
            THEN /\ cache' = MapDelete(cache, key)
                 /\ misses' = CountMiss(misses)
                 /\ ret' = [op |-> "get", out |-> Null, stale |-> TRUE]
                 /\ UNCHANGED hits
            ELSE /\ cache' = MoveToEnd(cache, key, Touched(cache[i]))
                 /\ hits' = hits + 1
                 /\ ret' = [op |-> "get", out |-> {cache[i].value},
                            stale |-> FALSE]
                 /\ UNCHANGED misses
    /\ UNCHANGED <<clock, pollVars, sseVars, clientVars, repoVars>>

\* set(key, value)
Set(key, value) ==
    /\ cache' = Append(EvictIfFull(MapDelete(cache, key)),
                       NewEntry(key, value, clock))
    /\ ret' = [op |-> "set", out |-> Null, stale |-> FALSE]
    /\ UNCHANGED <<hits, misses, clock, pollVars, sseVars, clientVars, repoVars>>

\* delete(key)
Delete(key) ==
    /\ cache' = MapDelete(cache, key)
    /\ ret' = [op |-> "delete", out |-> IndexOf(cache, key) # 0,
               stale |-> FALSE]
    /\ UNCHANGED <<hits, misses, clock, pollVars, sseVars, clientVars, repoVars>>

\* has(key)
Has(key) ==
    LET i == IndexOf(cache, key) IN
    /\ IF i = 0
       THEN /\ ret' = [op |-> "has", out |-> FALSE, stale |-> FALSE]
            /\ UNCHANGED cache
       ELSE IF Expired(cache[i], clock)
            THEN /\ cache' = MapDelete(cache, key)
                 /\ ret' = [op |-> "has", out |-> FALSE,
                            stale |-> TRUE]
            ELSE /\ ret' = [op |-> "has", out |-> TRUE,
                            stale |-> FALSE]
                 /\ cache' = HasOrder(cache, key)
    /\ UNCHANGED <<hits, misses, clock, pollVars, sseVars, clientVars, repoVars>>

\* clear()
Clear ==
    /\ cache' = <<>>
    /\ hits' = 0
    /\ misses' = 0
    /\ ret' = [op |-> "clear", out |-> Null, stale |-> FALSE]
    /\ UNCHANGED <<clock, pollVars, sseVars, clientVars, repoVars>>

\* A sweep that stops after the first entry it removed.
SurvivorsOneRemoved(m, t) ==
    LET stale == {i \in DOMAIN m : Expired(m[i], t)} IN
    IF stale = {} THEN m
    ELSE LET j == CHOOSE i \in stale : \A k \in stale : i <= k
         IN  SubSeq(m, 1, j - 1) \o SubSeq(m, j + 1, Len(m))

\* The Map after the loop of evictExpired(): every entry is visited and the
\* expired ones are deleted.
Survivors(m, t) == SelectSeq(m, LAMBDA e : ~Expired(e, t))

\* evictExpired()
EvictExpired ==
    LET kept == Survivors(cache, clock) IN
    /\ cache' = kept
    /\ ret' = [op |-> "evictExpired", out |-> Len(cache) - Len(kept),
               stale |-> Len(cache) # Len(kept)]
    /\ UNCHANGED <<hits, misses, clock, pollVars, sseVars, clientVars, repoVars>>

\* Time passes between two calls.
CacheClockTick ==
    /\ clock < MaxClock
    /\ clock' = clock + 1
    /\ UNCHANGED <<cache, hits, misses, ret, pollVars, sseVars, clientVars, repoVars>>

CacheGet == \E key \in Keys : Get(key)
CacheSet == \E key \in Keys, value \in Values : Set(key, value)
CacheDelete == \E key \in Keys : Delete(key)
CacheHas == \E key \in Keys : Has(key)

CacheNext ==
    \/ CacheGet
    \/ CacheSet
    \/ CacheDelete
    \/ CacheHas
    \/ Clear
    \/ EvictExpired
    \/ CacheClockTick

\* ------------------------------------------------------------ cache claims
\* C5: after any sequence of set/get/has/delete/clear/evictExpired with
\* arbitrary string keys (the empty string included) the number of entries
\* held never exceeds maxSize.
C5_CapacityBound == Len(cache) <= maxSize

\* C6: get(key) on a stored key reports a miss exactly when
\* now - storedAt > ttl, and then the stale entry is removed; otherwise it
\* returns the stored value.  storedAt is the time of the last set of the
\* key: set stamps the entry with the current time and a get hit moves the
\* entry without renewing its stamp.
C6_TtlExpiry ==
    [][\A key \in Keys :
         /\ Get(key) =>
              LET i == IndexOf(cache, key) IN
              i # 0 =>
                IF clock - cache[i].timestamp > ttl
                THEN /\ ret'.out = Null
                     /\ IndexOf(cache', key) = 0
                ELSE /\ ret'.out = {cache[i].value}
                     /\ IndexOf(cache', key) # 0
                     /\ cache'[IndexOf(cache', key)].timestamp = cache[i].timestamp
         /\ (\E value \in Values : Set(key, value)) =>
              /\ IndexOf(cache', key) # 0
              /\ cache'[IndexOf(cache', key)].timestamp = clock
      ]_vars

\* C6 witness: a get found its key stored but older than the ttl, reported
\* a miss and dropped the entry.
C6_Witness ==
    /\ ret.op = "get"
    /\ ret.stale
    /\ ret.out = Null
    /\ misses > 0

\* C16: a set of a new key into a full cache evicts exactly the
\* least-recently-used entry (the first of the Map), whatever its key, and
\* keeps all others in their order.
C16_LruEviction ==
    [][\A key \in Keys, value \in Values :
         (Set(key, value) /\ IndexOf(cache, key) = 0 /\ Len(cache) = maxSize)
            => cache' = Append(Tail(cache), NewEntry(key, value, clock))
      ]_vars

\* C17: a get hit makes its key the most-recently-used entry and keeps the
\* order of all others, and a set of a new key never evicts anything but
\* the first entry of that order, so the key just read goes after every
\* entry not touched since.
C17_Recency ==
    [][\A key \in Keys :
         /\ (Get(key) /\ ret'.out # Null) =>
               /\ cache'[Len(cache')].key = key
               /\ Len(cache') = Len(cache)
               /\ MapDelete(cache', key) = MapDelete(cache, key)
         /\ \A value \in Values :
               (Set(key, value) /\ IndexOf(cache, key) = 0) =>
                   \/ MapDelete(cache', key) = cache
                   \/ MapDelete(cache', key) = Tail(cache)
      ]_vars

\* C17 witness: a get hit has just moved an entry behind one that was
\* stored later.
C17_Witness ==
    /\ ret.op = "get"
    /\ ret.out # Null
    /\ Len(cache) = 2
    /\ cache[2].timestamp < cache[1].timestamp

\* C18: set(key, v) on a key already present replaces the value, stamps the
\* entry with the current time and evicts no other entry: the number of
\* entries is unchanged.
C18_ReplaceWithoutEviction ==
    [][\A key \in Keys, value \in Values :
         (Set(key, value) /\ IndexOf(cache, key) # 0)
            => cache' = Append(MapDelete(cache, key), NewEntry(key, value, clock))
      ]_vars

\* C19: has(key) answers true exactly when the key is stored with
\* now - storedAt <= ttl, leaves both counters alone, and leaves the Map as
\* it was apart from dropping the stale entry it found.
C19_HasIsPure ==
    [][\A key \in Keys :
         Has(key) =>
            LET i == IndexOf(cache, key)
                fresh == i # 0 /\ clock - cache[i].timestamp <= ttl
            IN  /\ ret'.out = fresh
                /\ hits' = hits
                /\ misses' = misses
                /\ cache' = IF i # 0 /\ ~fresh THEN MapDelete(cache, key)
                            ELSE cache
      ]_vars

\* C19 witness: has() has just answered true on a cache of two entries
\* after a get was counted.
C19_Witness ==
    /\ ret.op = "has"
    /\ ret.out = TRUE
    /\ Len(cache) = 2
    /\ hits + misses > 0

\* C20: every get adds one to exactly one counter (hits when it returns a
\* value, misses when it returns null); set, has, delete and evictExpired
\* leave both alone; clear() empties the cache and zeroes both; getStats
\* reports the two counters as they are.
C20_Counters ==
    /\ [][/\ (\E key \in Keys : Get(key)) =>
                \/ ret'.out # Null /\ hits' = hits + 1 /\ misses' = misses
                \/ ret'.out = Null /\ hits' = hits /\ misses' = misses + 1
          /\ (\/ \E key \in Keys, value \in Values : Set(key, value)
              \/ \E key \in Keys : Has(key) \/ Delete(key)
              \/ EvictExpired) => (hits' = hits /\ misses' = misses)
          /\ Clear => (cache' = <<>> /\ hits' = 0 /\ misses' = 0)
         ]_vars
    /\ [](GetStats.hits = hits /\ GetStats.misses = misses
          /\ GetStats.size = Len(cache))

\* C20 witness: one hit and one miss have been counted.
C20_Witness ==
    /\ hits = 1
    /\ misses = 1
    /\ ret.op = "get"
    /\ GetStats.hitRate = 5000

\* C22: evictExpired() removes all and only the entries with
\* now - storedAt > ttl, returns how many it removed, keeps the survivors in
\* their order and leaves the counters alone; what it leaves holds no
\* expired entry, and on a cache without expired entries it returns 0 and
\* changes nothing, so a second call at the same time is a no-op.
C22_EvictExpired ==
    [][EvictExpired =>
         LET old == {i \in DOMAIN cache : clock - cache[i].timestamp > ttl} IN
         /\ cache' = SelectSeq(cache, LAMBDA e : clock - e.timestamp <= ttl)
         /\ ret'.out = Cardinality(old)
         /\ hits' = hits /\ misses' = misses
         /\ \A i \in DOMAIN cache' : clock' - cache'[i].timestamp <= ttl
         /\ old = {} => (cache' = cache /\ ret'.out = 0)
      ]_vars

\* C22 witness: evictExpired() has just removed an entry and kept another.
C22_Witness ==
    /\ ret.op = "evictExpired"
    /\ ret.out >= 1
    /\ Len(cache) >= 1

\* ---------------------------------------------- CacheService.getHealthStatus
\* (this.hits / totalRequests) * 100 > percent.  For the counts of the model
\* the doubles of the source give what exact arithmetic gives (in particular
\* (1 / 5) * 100 is exactly 20 and (1 / 2) * 100 exactly 50).
HitRateAbove(h, totalRequests, percent) == h * 100 > percent * totalRequests

\* getHealthStatus() of the cache
CacheHealthStatus(h, m) ==
    LET totalRequests == h + m IN
    IF totalRequests = 0 THEN "operational"
    ELSE IF HitRateAbove(h, totalRequests, 50) THEN "operational"
    ELSE IF HitRateAbove(h, totalRequests, 20) THEN "degraded"
    ELSE "down"

\* getHealthStatus() is called.
GetHealthStatus ==
    /\ ret' = [op |-> "getHealthStatus", out |-> CacheHealthStatus(hits, misses),
               stale |-> FALSE]
    /\ UNCHANGED <<cache, hits, misses, clock, pollVars, sseVars, clientVars, repoVars>>

CacheHealthNext == GetHealthStatus

\* C21: getHealthStatus answers operational when no get was counted yet;
\* otherwise operational when the hit rate is above 50%, degraded when it is
\* from 20% to 50% inclusive, down when it is below 20%.
C21_CacheHealthBands ==
    ret.op = "getHealthStatus" =>
        ret.out = IF hits + misses = 0 THEN "operational"
                  ELSE IF 2 * hits > hits + misses THEN "operational"
                  ELSE IF 5 * hits >= hits + misses THEN "degraded"
                  ELSE "down"

\* -------------------------------------------------------------- SSEManager
\* The model accepts MAX_CLIENTS + 1 connections over a run: enough to fill
\* the registry and to replace one client that left.
ClientIds == 1 .. (MAX_CLIENTS + 1)
\* Topics messages are published on, and the topic lists clients ask for.
Topics == {"deployments", "projects"}
TopicSets == {{"*"}, {"deployments"}}

\* The constructor: the registry is empty and startHeartbeat() has armed the
\* interval timer.
SSEInit ==
    /\ clients = <<>>
    /\ heartbeatInterval = TRUE
    /\ now = 0
    /\ nextId = 1
    /\ streams = <<>>
    /\ connecting = {}
    /\ broadcasts = EmptyBag
    /\ lastOp = [op |-> "none"]

Registered == DOMAIN clients

\* A function without the points of S.
Without(f, S) == [x \in DOMAIN f \ S |-> f[x]]

\* client.controller.close() inside removeClient's try/catch, for each id of S.
CloseAll(S) == [id \in DOMAIN streams |->
                   IF id \in S THEN [streams[id] EXCEPT !.closed = TRUE]
                   ELSE streams[id]]

\* A capacity test that lets one client too many in.
AtCapacityOffByOne == Cardinality(DOMAIN clients) > MAX_CLIENTS

\* The capacity test of createConnection.
AtCapacity == Cardinality(Registered) >= MAX_CLIENTS

\* A broadcast that ignores the topic sets.
TargetClientsAll(topic) == DOMAIN clients

\* The filter of broadcast(): the registered clients a topic reaches.
TargetClients(topic) ==
    {id \in Registered : "*" \in clients[id].topics \/ topic \in clients[id].topics}

\* A sweep that already drops a client exactly at the threshold.
IsStaleInclusive(c, t) == t - c.lastHeartbeat >= HEARTBEAT_INTERVAL * 2

\* now - client.lastHeartbeat > staleThreshold, staleThreshold = 2 * interval
IsStale(c, t) == t - c.lastHeartbeat > HEARTBEAT_INTERVAL * 2

\* A .catch that logs the failure and leaves the dead client registered.
OnWriteFailureKeep(id) == {}

\* The ids removeClient is called with when the write to id is rejected
\* inside broadcast().
OnWriteFailure(id) == {id}

\* client.lastHeartbeat = Date.now() after a write that succeeded; the client
\* object may have left the registry meanwhile.
Refreshed(id) ==
    IF id \in Registered
    THEN [clients EXCEPT ![id].lastHeartbeat = now]
    ELSE clients

\* The synchronous part of broadcast(topic, message): filter, then start one
\* sendToClient per target.  Gives the activation left awaiting allSettled.
NewBroadcast(topic) ==
    [targets |-> TargetClients(topic),
     pending |-> TargetClients(topic),
     written |-> {},
     failed  |-> {},
     removed |-> {}]

\* What a broadcast() that has returned leaves behind for inspection.
Finished(b) == [op |-> "broadcast", targets |-> b.targets,
                written |-> b.written,
                failed |-> b.failed, removed |-> b.removed, raised |-> FALSE]

\* The model follows one broadcast() activation at a time.
CanBroadcast == broadcasts = EmptyBag

\* What a stream shows before anything was written to it.
NoMessage == [event |-> "none", clientId |-> 0]

\* The 'connected' event: data: { clientId, timestamp }.
ConnectedMessage(id) == [event |-> "connected", clientId |-> id]

\* A message broadcast on a topic.
TopicMessage(topic) == [event |-> topic, clientId |-> 0]

\* controller.write(sseData) is called on a stream: writes reach the client
\* in the order they are issued.
IssueWrite(stream, message) ==
    IF stream.first = NoMessage THEN [stream EXCEPT !.first = message]
    ELSE stream

\* The streams after one sendToClient(client, message) per client of S.
WriteTo(S, message) ==
    [id \in DOMAIN streams |->
        IF id \in S THEN IssueWrite(streams[id], message) ELSE streams[id]]

\* A callback that registers the client and writes nothing.
AcceptedSilent(id) == [closed |-> FALSE, first |-> NoMessage]

\* The stream of a client right after the c.stream callback has registered
\* it and called sendToClient with the 'connected' event.
Accepted(id) ==
    IssueWrite([closed |-> FALSE, first |-> NoMessage], ConnectedMessage(id))

\* createConnection(c, topics).  The capacity test, the registration and the
\* start of the 'connected' write are one turn: c.stream runs its callback
\* at once.  The model follows one handshake ('connected' write awaited) at
\* a time.
CreateConnection(topics) ==
    /\ IF AtCapacity
       THEN /\ lastOp' = [op |-> "create", status |-> 503]
            /\ UNCHANGED <<clients, nextId, streams, connecting>>
       ELSE /\ nextId \in ClientIds
            /\ connecting = {}
            /\ clients' = [id \in Registered \cup {nextId} |->
                             IF id = nextId
                             THEN [topics |-> topics, lastHeartbeat |-> now]
                             ELSE clients[id]]
            /\ streams' = [id \in DOMAIN streams \cup {nextId} |->
                             IF id = nextId
                             THEN Accepted(id)
                             ELSE streams[id]]
            /\ connecting' = connecting \cup {nextId}
            /\ nextId' = nextId + 1
            /\ lastOp' = [op |-> "create", status |-> 200]
    /\ UNCHANGED <<heartbeatInterval, now, broadcasts,
                   pollVars, cacheVars, clientVars, repoVars>>

Connect == \E topics \in TopicSets : CreateConnection(topics)

\* The 'connected' write settles.  A rejection leaves sendToClient with the
\* error rethrown into the stream callback; nothing there removes the client.
ConnectedWrite(id, ok) ==
    /\ id \in connecting
    /\ connecting' = connecting \ {id}
    /\ clients' = IF ok THEN Refreshed(id) ELSE clients
    /\ lastOp' = [op |-> "other"]
    /\ UNCHANGED <<heartbeatInterval, now, nextId, streams,
                   broadcasts, pollVars, cacheVars, clientVars, repoVars>>

ConnectedWriteSettles ==
    \E id \in ClientIds, ok \in BOOLEAN : ConnectedWrite(id, ok)

\* broadcast(topic, message) called from the events route.
BroadcastOn(topic) ==
    LET b == NewBroadcast(topic) IN
    /\ IF b.targets = {}
       THEN /\ lastOp' = Finished(b)
            /\ UNCHANGED broadcasts
       ELSE /\ CanBroadcast
            /\ broadcasts' = broadcasts (+) SetToBag({b})
            /\ lastOp' = [op |-> "other"]
    /\ streams' = WriteTo(b.targets, TopicMessage(topic))
    /\ UNCHANGED <<clients, heartbeatInterval, now, nextId,
                   connecting, pollVars, cacheVars, clientVars, repoVars>>

Broadcast == \E topic \in Topics : BroadcastOn(topic)

\* One write of a broadcast settles.  Success refreshes the client's
\* liveness; a rejection runs the .catch, which calls removeClient.  When it
\* was the last one, allSettled resolves and broadcast() returns.
WriteSettle(b, id, ok) ==
    LET gone == IF ok THEN {} ELSE OnWriteFailure(id)
        b1   == [b EXCEPT !.pending = @ \ {id},
                          !.written = IF ok THEN @ \cup {id} ELSE @,
                          !.failed  = IF ok THEN @ ELSE @ \cup {id},
                          !.removed = @ \cup gone]
    IN  /\ id \in b.pending
        /\ clients' = IF ok THEN Refreshed(id) ELSE Without(clients, gone)
        /\ streams' = CloseAll(gone \cap Registered)
        /\ connecting' = connecting \ gone
        /\ IF b1.pending = {}
           THEN /\ broadcasts' = broadcasts (-) SetToBag({b})
                /\ lastOp' = Finished(b1)
           ELSE /\ broadcasts' = (broadcasts (-) SetToBag({b})) (+) SetToBag({b1})
                /\ lastOp' = [op |-> "other"]
        /\ UNCHANGED <<heartbeatInterval, now, nextId,
                       pollVars, cacheVars, clientVars, repoVars>>

WriteSettles ==
    \E b \in BagToSet(broadcasts), id \in ClientIds, ok \in BOOLEAN :
        WriteSettle(b, id, ok)

\* A removeClient that empties the registry.
RemovedAll(id) == DOMAIN clients

\* The ids removeClient(id) deletes from the Map.
Removed(id) == {id}

\* removeClient(clientId), called from outside the manager.  close() may
\* throw on a stream that is already closed; the try/catch drops the error.
RemoveClientId(id, closeThrows) ==
    /\ closeThrows => id \in Registered
    /\ clients' = Without(clients, Removed(id))
    /\ streams' = CloseAll(Removed(id) \cap Registered)
    /\ connecting' = connecting \ Removed(id)
    /\ lastOp' = [op |-> "other"]
    /\ UNCHANGED <<heartbeatInterval, now, nextId, broadcasts,
                   pollVars, cacheVars, clientVars, repoVars>>

RemoveClient ==
    \E id \in ClientIds, closeThrows \in BOOLEAN : RemoveClientId(id, closeThrows)

\* The setInterval callback of startHeartbeat(), run when the next interval
\* has elapsed: broadcast the heartbeat (not awaited), then sweep the
\* registry for stale clients.
HeartbeatTick ==
    LET t     == now + HEARTBEAT_INTERVAL
        b     == NewBroadcast("heartbeat")
        stale == {id \in Registered : IsStale(clients[id], t)}
    IN  /\ heartbeatInterval
        /\ t <= MaxIntervals * HEARTBEAT_INTERVAL
        /\ now' = t
        /\ IF b.targets = {}
           THEN UNCHANGED broadcasts
           ELSE /\ CanBroadcast
                /\ broadcasts' = broadcasts (+) SetToBag({b})
        /\ clients' = Without(clients, stale)
        /\ streams' = [id \in DOMAIN streams |->
                          IF id \in stale
                          THEN [WriteTo(b.targets, TopicMessage("heartbeat"))[id]
                                   EXCEPT !.closed = TRUE]
                          ELSE WriteTo(b.targets, TopicMessage("heartbeat"))[id]]
        /\ connecting' = connecting \ stale
        /\ lastOp' = [op |-> "tick", missed |-> Registered \ b.targets,
                      swept |-> stale]
        /\ UNCHANGED <<heartbeatInterval, nextId, pollVars, cacheVars, clientVars, repoVars>>

\* A stop() that only cancels the timer.
StopTargetsNone == {}

\* The ids stop() calls removeClient with: this.clients.keys().
StopTargets == Registered

\* getHealthStatus() of the manager
SseHealthStatus ==
    IF Cardinality(Registered) * 100 > 90 * MAX_CLIENTS THEN "degraded"
    ELSE IF ~heartbeatInterval THEN "down"
    ELSE "operational"

\* stop()
SseStop ==
    /\ heartbeatInterval' = FALSE
    /\ clients' = Without(clients, StopTargets)
    /\ streams' = CloseAll(StopTargets)
    /\ connecting' = {}
    /\ lastOp' = [op |-> "other"]
    /\ UNCHANGED <<now, nextId, broadcasts, pollVars, cacheVars, clientVars, repoVars>>

SSENext ==
    \/ Connect
    \/ ConnectedWriteSettles
    \/ Broadcast
    \/ WriteSettles
    \/ RemoveClient
    \/ HeartbeatTick
    \/ SseStop

\* ------------------------------------------------------------- SSE claims
\* C2: fan-out isolation.  When a broadcast has returned: it did not raise;
\* removeClient ran for exactly the targets whose write failed, and none of
\* them is registered any more; every other target had the message written.
C2_FanOutIsolation ==
    lastOp.op = "broadcast" =>
        /\ ~lastOp.raised
        /\ lastOp.removed = lastOp.failed
        /\ lastOp.failed \cap Registered = {}
        /\ lastOp.written = lastOp.targets \ lastOp.failed

\* C2 witness: a broadcast to two subscribers has returned, the write to
\* exactly one of them failed, and the other one got the message and is
\* still registered.
C2_Witness ==
    /\ lastOp.op = "broadcast"
    /\ Cardinality(lastOp.targets) = 2
    /\ Cardinality(lastOp.failed) = 1
    /\ lastOp.written # {}
    /\ lastOp.written \subseteq Registered

\* C7: the registry never holds more than MAX_CLIENTS subscribers, and a
\* createConnection that finds it full answers 503 and registers nothing.
C7_SubscriberCapacity ==
    /\ [](Cardinality(Registered) <= MAX_CLIENTS)
    /\ [][(\E topics \in TopicSets : CreateConnection(topics))
            /\ Cardinality(Registered) >= MAX_CLIENTS
          => /\ lastOp'.status = 503
             /\ clients' = clients
             /\ streams' = streams
             /\ nextId' = nextId]_vars

\* C7 witness: a createConnection has just been rejected with the registry
\* full.
C7_Witness ==
    /\ lastOp.op = "create"
    /\ lastOp.status = 503
    /\ Cardinality(Registered) = MAX_CLIENTS

\* C8: on every heartbeat tick the heartbeat is sent to every registered
\* subscriber, whatever its topic set.
C8_HeartbeatReachesAll ==
    lastOp.op = "tick" => lastOp.missed = {}

\* C9: a heartbeat tick removes, and closes the stream of, each subscriber
\* whose liveness timestamp is more than 2 x HEARTBEAT_INTERVAL old at the
\* tick, and the sweep leaves every other subscriber as it was.
C9_StaleSweep ==
    [][now' # now =>
         \A id \in Registered :
            IF now' - clients[id].lastHeartbeat > 2 * HEARTBEAT_INTERVAL
            THEN /\ id \notin DOMAIN clients'
                 /\ streams'[id].closed
            ELSE /\ id \in DOMAIN clients'
                 /\ clients'[id] = clients[id]
                 /\ streams'[id] = streams[id]
      ]_vars

\* C9 witness: a tick has just swept a stale subscriber and kept another.
C9_Witness ==
    /\ lastOp.op = "tick"
    /\ lastOp.swept # {}
    /\ Registered # {}
    /\ \A id \in lastOp.swept : streams[id].closed /\ id \notin Registered

\* C23: broadcast(topic, message) targets exactly the registered subscribers
\* whose topic set holds '*' or the topic; starting it modifies no
\* subscriber; with no matching subscriber it returns at once without error
\* and without a write; and a write of a broadcast touches no subscriber
\* outside the targets.
C23_BroadcastTargeting ==
    [][/\ \A topic \in Topics :
            BroadcastOn(topic) =>
               LET match == {id \in DOMAIN clients :
                               "*" \in clients[id].topics
                               \/ topic \in clients[id].topics}
               IN  /\ clients' = clients
                   /\ streams' = streams
                   /\ IF match = {}
                      THEN /\ broadcasts' = broadcasts
                           /\ lastOp'.op = "broadcast"
                           /\ ~lastOp'.raised
                           /\ lastOp'.written = {}
                      ELSE \E b \in BagToSet(broadcasts') :
                              /\ b.targets = match
                              /\ b.pending = match
                              /\ b.written = {}
       /\ WriteSettles =>
            \A id \in Registered \ UNION {b.targets : b \in BagToSet(broadcasts)} :
                /\ id \in Registered'
                /\ clients'[id] = clients[id]
                /\ streams'[id] = streams[id]
      ]_vars

\* C23 witness: a broadcast has returned after writing to every subscriber
\* it matched, and a subscriber without the wildcard that it did not match
\* is registered.
C23_Witness ==
    /\ lastOp.op = "broadcast"
    /\ lastOp.targets # {}
    /\ lastOp.written = lastOp.targets
    /\ \E id \in Registered \ lastOp.targets : "*" \notin clients[id].topics

\* C24: whenever a write to a subscriber fails (a broadcast message, a
\* heartbeat or the 'connected' acknowledgment) exactly that subscriber
\* leaves the registry.
C24_WriteFailureRemoves ==
    [][\A id \in ClientIds :
         (\/ ConnectedWrite(id, FALSE)
          \/ \E b \in BagToSet(broadcasts) : WriteSettle(b, id, FALSE))
            => /\ id \notin Registered'
               /\ Registered' = Registered \ {id}
      ]_vars

\* C25: stop() cancels the heartbeat timer, closes the stream of every
\* registered subscriber and empties the registry; once the timer is
\* cancelled no tick runs again; a stop() on a stopped, empty manager
\* changes nothing.
C25_FanOutStop ==
    [][/\ SseStop =>
            /\ ~heartbeatInterval'
            /\ Registered' = {}
            /\ \A id \in Registered : streams'[id].closed
            /\ (~heartbeatInterval /\ Registered = {}) =>
                  UNCHANGED <<clients, heartbeatInterval, now, nextId,
                              streams, connecting, broadcasts>>
       /\ ~heartbeatInterval => (~heartbeatInterval' /\ now' = now)
      ]_vars

\* C25 witness: the manager is stopped, its registry is empty and the
\* streams of two subscribers are closed.
C25_Witness ==
    /\ ~heartbeatInterval
    /\ Registered = {}
    /\ Cardinality({id \in DOMAIN streams : streams[id].closed}) >= 2

\* C26: getHealthStatus is down when the heartbeat timer is not running,
\* otherwise degraded when the registry holds more than 90% of MAX_CLIENTS,
\* otherwise operational.
C26_FanOutHealth ==
    SseHealthStatus =
        IF ~heartbeatInterval THEN "down"
        ELSE IF Cardinality(Registered) * 10 > 9 * MAX_CLIENTS THEN "degraded"
        ELSE "operational"

\* C27: removeClient(id) on a registered id closes its stream and removes
\* exactly that subscriber, whether or not close() throws; on any other id
\* it changes neither the registry nor a stream.
C27_RemoveIdempotent ==
    [][\A id \in ClientIds, closeThrows \in BOOLEAN :
         RemoveClientId(id, closeThrows) =>
            IF id \in Registered
            THEN /\ Registered' = Registered \ {id}
                 /\ streams'[id].closed
                 /\ \A other \in Registered \ {id} :
                       /\ clients'[other] = clients[other]
                       /\ streams'[other] = streams[other]
            ELSE /\ clients' = clients
                 /\ streams' = streams
      ]_vars

\* C27 witness: before any tick or stop, with no write pending, one
\* subscriber is registered and another one has left with its stream closed.
C27_Witness ==
    /\ heartbeatInterval
    /\ now = 0
    /\ broadcasts = EmptyBag
    /\ connecting = {}
    /\ lastOp.op = "other"
    /\ Cardinality(Registered) = 1
    /\ \E id \in DOMAIN streams \ Registered : streams[id].closed

\* C34: an accepted createConnection registers the subscriber with its
\* topics and its liveness timestamp set to the current time, and the first
\* message written to its stream is the 'connected' event carrying its id,
\* whatever broadcasts and heartbeats run before or after the write settles.
C34_SubscribeHandshake ==
    /\ [](\A id \in DOMAIN streams : streams[id].first = ConnectedMessage(id))
    /\ [][\A topics \in TopicSets :
            (CreateConnection(topics) /\ ~AtCapacity) =>
               /\ Registered' = Registered \cup {nextId}
               /\ nextId \notin Registered
               /\ clients'[nextId].topics = topics
               /\ clients'[nextId].lastHeartbeat = now
               /\ streams'[nextId].first = ConnectedMessage(nextId)
               /\ ~streams'[nextId].closed
         ]_vars

\* C34 witness: a broadcast has been written to a subscriber while that
\* subscriber's 'connected' write had not settled yet.
C34_Witness ==
    \E b \in BagToSet(broadcasts), id \in connecting :
        /\ id \in b.written
        /\ streams[id].first = ConnectedMessage(id)

\* The manager in an environment where no write is ever rejected.
ConnectedWriteSucceeds == \E id \in ClientIds : ConnectedWrite(id, TRUE)

WriteSucceeds ==
    \E b \in BagToSet(broadcasts), id \in ClientIds : WriteSettle(b, id, TRUE)

LiveNext ==
    \/ Connect
    \/ ConnectedWriteSucceeds
    \/ Broadcast
    \/ WriteSucceeds
    \/ HeartbeatTick

\* C36: while the heartbeat timer runs and every write succeeds, the stale
\* sweep of a tick removes no registered subscriber all of whose writes
\* have settled, whatever its topics and however little is broadcast on them.
C36_LiveNeverSwept ==
    [][HeartbeatTick =>
         \A id \in Registered :
            (/\ id \notin connecting
             /\ \A b \in BagToSet(broadcasts) : id \notin b.pending)
               => id \in Registered'
      ]_vars

\* ------------------------------------------------- DeploymentsRepository
DeploymentIds == 1 .. MaxDeployments
DeploymentStatuses == {"active", "failure"}
DeploymentUrls == {"a.pages.dev", "b.pages.dev"}

\* The CloudflareDeployment values handed to the repository.  url stands
\* for the columns the statement only inserts (short_id, project_id,
\* project_name, environment, url, created_at), status for the columns it
\* also lists under DO UPDATE SET (status, modified_at, stage_*).
Deployments == [id : DeploymentIds, url : DeploymentUrls, status : DeploymentStatuses]

\* The batches handed to upsertMany.
Batches == UNION {[1 .. n -> Deployments] : n \in 0 .. MaxBatch}

RepoInit ==
    /\ deploymentsTable = <<>>
    /\ latestUpsert = <<>>

\* The values stmt.run binds for one deployment.
Row(d) == [url |-> d.url, status |-> d.status]

\* A function with the point k set to v.
With(f, k, v) == [x \in DOMAIN f \cup {k} |-> IF x = k THEN v ELSE f[x]]

\* INSERT ... ON CONFLICT(id) DO UPDATE SET status = excluded.status, ...
\* A new id gets the whole row; an existing id gets the listed columns only.
UpsertRow(t, d) ==
    IF d.id \in DOMAIN t
    THEN [t EXCEPT ![d.id].status = d.status]
    ELSE With(t, d.id, Row(d))

\* The transaction of upsertMany: one statement per deployment, in order.
RECURSIVE UpsertAll(_, _)
UpsertAll(t, batch) ==
    IF batch = <<>> THEN t
    ELSE UpsertAll(UpsertRow(t, Head(batch)), Tail(batch))

\* What the callers last asked to store, per id, after a batch.
RECURSIVE LatestAfter(_, _)
LatestAfter(l, batch) ==
    IF batch = <<>> THEN l
    ELSE LatestAfter(With(l, Head(batch).id, Row(Head(batch))), Tail(batch))

\* upsert(deployment)
Upsert ==
    \E d \in Deployments :
        /\ deploymentsTable' = UpsertRow(deploymentsTable, d)
        /\ latestUpsert' = LatestAfter(latestUpsert, <<d>>)
        /\ UNCHANGED <<pollVars, cacheVars, sseVars, clientVars>>

\* upsertMany(deployments)
UpsertMany ==
    \E batch \in Batches :
        /\ deploymentsTable' = UpsertAll(deploymentsTable, batch)
        /\ latestUpsert' = LatestAfter(latestUpsert, batch)
        /\ UNCHANGED <<pollVars, cacheVars, sseVars, clientVars>>

RepoNext ==
    \/ Upsert
    \/ UpsertMany

\* ------------------------------------------------------ repository claims
\* C31: upsert and upsertMany are insert-or-update keyed by id: applying a
\* batch twice leaves the same rows as applying it once, and after any
\* sequence of upserts the table holds one row per distinct id upserted,
\* each with the values of the latest upsert of that id.
C31_UpsertIdempotence ==
    /\ \A batch \in Batches :
          UpsertAll(UpsertAll(deploymentsTable, batch), batch)
             = UpsertAll(deploymentsTable, batch)
    /\ DOMAIN deploymentsTable = DOMAIN latestUpsert
    /\ \A id \in DOMAIN deploymentsTable :
          deploymentsTable[id] = latestUpsert[id]

\* ---------------------------------------------------------- CloudflareClient
\* Values Math.random() * 1000 takes in calculateBackoff.
Jitters == {0, 999}
\* The Retry-After header of a 429, as a set: empty when absent, else the
\* number of seconds it carries.
NoHeader == {}
RetryAfterHeaders == {NoHeader, {2}}
NoError == "none"

\* What one fetch (and the reading of its body) can settle with: the fetch
\* rejects with a network error, the abort timer fires first (AbortError),
\* or a response arrives with a status and a body.  The body is "success"
\* (success: true), "failure" (success: false or an error body) or "invalid"
\* (response.json() throws).
FetchOutcomes ==
    {[kind |-> "network"], [kind |-> "timeout"]}
    \cup [kind : {"response"}, status : {200}, retryAfter : {NoHeader},
          body : {"success", "failure", "invalid"}]
    \cup [kind : {"response"}, status : {401, 503}, retryAfter : {NoHeader},
          body : {"failure"}]
    \cup [kind : {"response"}, status : {429}, retryAfter : RetryAfterHeaders,
          body : {"failure"}]

\* response.ok
ResponseOk(o) == o.status >= 200 /\ o.status <= 299

\* calculateBackoff(attempt) with the jitter drawn.
RECURSIVE Pow2(_)
Pow2(n) == IF n = 0 THEN 1 ELSE 2 * Pow2(n - 1)

Min(a, b) == IF a <= b THEN a ELSE b

\* A backoff without the Math.min.
CalculateBackoffUncapped(n, jitter) == retryDelay * Pow2(n) + jitter

CalculateBackoff(n, jitter) == Min(retryDelay * Pow2(n) + jitter, BackoffCap)

\* The delay of the 429 branch: Retry-After seconds when present.
RateLimitDelay(o, n, jitter) ==
    IF o.retryAfter # NoHeader
    THEN (CHOOSE seconds \in o.retryAfter : TRUE) * 1000
    ELSE CalculateBackoff(n, jitter)

\* attempt < this.config.maxRetries
MayRetry(n) == n < maxRetries

\* A call that reports a generic error instead of the one it caught.
ThrownErrorGeneric(e) == "Max retries exceeded"

\* throw lastError
ThrownError(e) == e

\* error.name of what the catch block receives.
ErrorName(e) == IF e = "timeout" THEN "AbortError"
                ELSE IF e = "network" THEN "TypeError"
                ELSE IF e = "invalid body" THEN "SyntaxError"
                ELSE "Error"

ClientInit ==
    /\ cpc = "idle"
    /\ attempt = 0
    /\ history = <<>>
    /\ delay = 0
    /\ lastError = NoError
    /\ ending = "none"

\* request(endpoint, options) is called: the loop starts and the first fetch
\* is awaited.
Request ==
    /\ cpc \in {"idle", "done"}
    /\ cpc' = "fetch"
    /\ attempt' = 0
    /\ history' = <<>>
    /\ delay' = 0
    /\ lastError' = NoError
    /\ ending' = "none"
    /\ UNCHANGED <<pollVars, cacheVars, sseVars, repoVars>>

\* await this.sleep(d); continue
Sleep(o, d) ==
    /\ cpc' = "sleep"
    /\ delay' = d
    /\ history' = Append(history, o)
    /\ UNCHANGED <<attempt, ending>>

\* The call leaves request(): it returns data or throws.
Leave(o, how, e) ==
    /\ cpc' = "done"
    /\ delay' = 0
    /\ history' = Append(history, o)
    /\ ending' = how
    /\ lastError' = e
    /\ UNCHANGED attempt

\* The catch block with the caught error e.
Catch(o, e, jitter) ==
    IF ErrorName(e) # "AbortError" /\ MayRetry(attempt)
    THEN lastError' = e /\ Sleep(o, CalculateBackoff(attempt, jitter))
    ELSE Leave(o, "threw", ThrownError(e))

\* From response.json() to the end of the try block.
ReadBody(o, jitter) ==
    IF o.body = "invalid" THEN Catch(o, "invalid body", jitter)
    ELSE IF ~ResponseOk(o) THEN Catch(o, "Cloudflare API error", jitter)
    ELSE IF o.body # "success" THEN Catch(o, "Cloudflare API request failed", jitter)
    ELSE Leave(o, "returned", lastError)

\* The fetch of the current iteration settles and the iteration runs to its
\* sleep, its return or its throw.
FetchSettles ==
    \E o \in FetchOutcomes, jitter \in Jitters :
        /\ cpc = "fetch"
        /\ IF o.kind # "response"
           THEN Catch(o, o.kind, jitter)
           ELSE IF o.status = 429 /\ MayRetry(attempt)
                THEN Sleep(o, RateLimitDelay(o, attempt, jitter))
                     /\ UNCHANGED lastError
                ELSE IF o.status >= 500 /\ MayRetry(attempt)
                     THEN Sleep(o, CalculateBackoff(attempt, jitter))
                          /\ UNCHANGED lastError
                     ELSE ReadBody(o, jitter)
        /\ UNCHANGED <<pollVars, cacheVars, sseVars, repoVars>>

\* The sleep ends: continue, attempt++, and the loop test.  A test that
\* fails leaves the loop for the final throw.
SleepEnds ==
    /\ cpc = "sleep"
    /\ attempt' = attempt + 1
    /\ delay' = 0
    /\ IF attempt + 1 <= maxRetries
       THEN /\ cpc' = "fetch"
            /\ UNCHANGED <<ending, lastError>>
       ELSE /\ cpc' = "done"
            /\ ending' = "threw"
            /\ lastError' = IF lastError # NoError THEN lastError
                            ELSE "Max retries exceeded"
    /\ UNCHANGED <<history, pollVars, cacheVars, sseVars, repoVars>>

\* -------------------------------------- CloudflareClient.calculateBackoff
\* Math.random() * 1000, to the millisecond.
BackoffJitters == 0 .. (JitterRange - 1)

\* The retry branches of request() at loop index attempt: a 429 sleeps
\* Retry-After seconds when the header is there and calculateBackoff(attempt)
\* otherwise; a 5xx sleeps calculateBackoff(attempt).
Backoff ==
    \E o \in FetchOutcomes, jitter \in BackoffJitters :
        /\ cpc = "fetch"
        /\ o.kind = "response"
        /\ o.status \in {429, 503}
        /\ Sleep(o, IF o.status = 429
                    THEN RateLimitDelay(o, attempt, jitter)
                    ELSE CalculateBackoff(attempt, jitter))
        /\ UNCHANGED <<lastError, pollVars, cacheVars, sseVars, repoVars>>

BackoffNext == Backoff

ClientNext ==
    \/ Request
    \/ FetchSettles
    \/ SleepEnds

\* ------------------------------------------------------------ client claims
\* The fetch results a caller would call transient.
IsTransient(o) ==
    \/ o.kind \in {"network", "timeout"}
    \/ o.kind = "response" /\ (o.status = 429 \/ o.status >= 500)

\* A client error other than rate-limit.
IsClientError(o) ==
    o.kind = "response" /\ o.status >= 400 /\ o.status <= 499 /\ o.status # 429

IsSuccess(o) ==
    o.kind = "response" /\ ResponseOk(o) /\ o.body = "success"

\* The error request() raises for a fetch result that is its last.
ErrorOf(o) ==
    IF o.kind # "response" THEN o.kind
    ELSE IF o.body = "invalid" THEN "invalid body"
    ELSE IF ~ResponseOk(o) THEN "Cloudflare API error"
    ELSE "Cloudflare API request failed"

\* C11: a client error other than 429 ends the call at once: the fetch that
\* got it is the only one, and the call has thrown without sleeping.
C11_ClientErrorNotRetried ==
    \A i \in DOMAIN history :
        IsClientError(history[i]) =>
            /\ Len(history) = 1
            /\ cpc = "done"
            /\ ending = "threw"

\* C12: request() makes at most maxRetries + 1 fetches and always ends; a
\* successful fetch is the last one and its call returns; a call in which no
\* fetch succeeded throws the error of its last fetch.
C12_BoundedRetries ==
    /\ [](/\ Len(history) <= maxRetries + 1
          /\ \A i \in DOMAIN history :
                IsSuccess(history[i]) =>
                    i = Len(history) /\ cpc = "done" /\ ending = "returned"
          /\ cpc = "done" =>
                /\ history # <<>>
                /\ ending \in {"returned", "threw"}
                /\ ending = "returned" <=> IsSuccess(history[Len(history)])
                /\ ending = "threw" =>
                      lastError = ErrorOf(history[Len(history)]))
    /\ (cpc = "fetch" ~> cpc = "done")

\* C12 witness: every fetch of a call failed, the call used all its
\* attempts and threw.
C12_Witness ==
    /\ cpc = "done"
    /\ ending = "threw"
    /\ Len(history) = maxRetries + 1

\* C13: a transient failure (network error, timeout, 429, 5xx) reaches the
\* caller only when all maxRetries retries are used up.
C13_TransientRetried ==
    (cpc = "done" /\ ending = "threw" /\ IsTransient(history[Len(history)]))
        => Len(history) = maxRetries + 1

\* C35: the delay slept before retry n is min(retryDelay * 2^n + jitter,
\* 30000) with 0 <= jitter < 1000: at most the cap and at least
\* min(retryDelay * 2^n, cap); a 429 that carries Retry-After sleeps that
\* many seconds instead.
C35_BackoffDelay ==
    cpc = "sleep" =>
        LET o    == history[Len(history)]
            base == retryDelay * 2^attempt
        IN  IF o.kind = "response" /\ o.status = 429 /\ o.retryAfter # NoHeader
            THEN \A seconds \in o.retryAfter : delay = seconds * 1000
            ELSE /\ delay <= BackoffCap
                 /\ delay >= (IF base <= BackoffCap THEN base ELSE BackoffCap)
                 /\ \E jitter \in 0 .. 999 :
                       delay = IF base + jitter <= BackoffCap
                               THEN base + jitter ELSE BackoffCap

\* C35 witness: a retry whose exponential term alone is past the cap sleeps
\* exactly the cap.
C35_Witness ==
    /\ cpc = "sleep"
    /\ history[Len(history)].retryAfter = NoHeader
    /\ retryDelay * 2^attempt > BackoffCap
    /\ delay = BackoffCap

Init == PollInit /\ CacheInit /\ SSEInit /\ ClientInit /\ RepoInit

Next ==
    \/ Start
    \/ Stop
    \/ TimerTick
    \/ TriggerImmediatePoll
    \/ ProjectsFetchFails
    \/ ProjectsFetched
    \/ DeploymentsFetched
    \/ DeploymentsFetchFails

Spec == Init /\ [][Next]_vars

CacheSpec == Init /\ [][CacheNext]_vars

SSESpec == Init /\ [][SSENext]_vars

\* A cache with any history of counted gets behind it.
CacheHealthInit ==
    /\ PollInit /\ SSEInit /\ ClientInit /\ RepoInit
    /\ cache = <<>>
    /\ clock = 0
    /\ ret = [op |-> "none"]
    /\ hits \in 0 .. MaxCount
    /\ misses \in 0 .. MaxCount

CacheHealthSpec == CacheHealthInit /\ [][CacheHealthNext]_vars

RepoSpec == Init /\ [][RepoNext]_vars

LiveSpec == Init /\ [][LiveNext]_vars

\* A request() whose loop has reached any index and awaits its fetch.
BackoffInit ==
    /\ PollInit /\ CacheInit /\ SSEInit /\ RepoInit
    /\ cpc = "fetch"
    /\ attempt \in 0 .. MaxAttempt
    /\ history = <<>>
    /\ delay = 0
    /\ lastError = NoError
    /\ ending = "none"

BackoffSpec == BackoffInit /\ [][BackoffNext]_vars

\* Every fetch settles (the abort timer bounds it) and every sleep ends.
ClientSpec ==
    Init /\ [][ClientNext]_vars /\ WF_vars(FetchSettles) /\ WF_vars(SleepEnds)

====
